---- MODULE Spec2Model ----
(***************************************************************************)
(* Model of src/bot.py: a Flask webhook endpoint that hands Telegram       *)
(* updates to a python-telegram-bot Application running on its own         *)
(* event loop in a background thread, buffering updates that arrive        *)
(* before the Application is ready.                                        *)
(*                                                                         *)
(* Threads of the program:                                                 *)
(*   PTB       the background thread running _ptb_thread                   *)
(*   SD        the context running _graceful_shutdown (SIGTERM / atexit)   *)
(*   main      the importing thread, which runs _set_webhook_once before   *)
(*             the HTTP server and the signal handlers exist               *)
(*   1..       one webhook() activation per inbound request; request r     *)
(*             carries update r                                            *)
(* One step is one access to shared state (the GIL makes a single deque    *)
(* or Event operation atomic, nothing more).                               *)
(***************************************************************************)
EXTENDS Integers, Sequences, FiniteSets, TLC

\* ----------------------------------------------------------------- bounds
\* requests and largest configured _BUFFER_MAX, with overlapping threads
MaxReq == 2
MaxCap == 2
\* requests and largest configured _BUFFER_MAX, with threads run one at a time
SeqMaxReq == 4
SeqMaxCap == 3
\* requests while the webhook is being registered
RegMaxReq == 2
\* requests and clock ticks while updates age in the buffer
TtlMaxReq == 2
MaxTime == 2

\* the time-to-live the specification gives a buffered update, in ticks; the
\* program has no such setting
TTL == 1

\* ------------------------------------------------------------ identities
PTB == 0
SD == 0 - 1
Requests == 1..SeqMaxReq
Procs == Requests \cup {PTB, SD}

WEBHOOK_SECRET == "mySecret_2025"
\* what request.headers.get("X-Telegram-Bot-Api-Secret-Token", "") can give
Headers == {WEBHOOK_SECRET, "wrong", ""}
\* request bodies: a JSON object that is a Telegram update, JSON that is not
\* an object, bytes that are not JSON
Bodies == {"update", "nonobject", "malformed"}

\* the two registration paths: _set_webhook_once in the importing thread and
\* the delete_webhook/set_webhook pair of _async_bootstrap in the PTB thread
Paths == {"main", "ptb"}
\* the webhook Telegram holds: none, the one of an earlier deployment, or
\* WEBHOOK_URL
Hooks == {"none", "stale", "url"}
\* answers of the Bot API to a call: success, a rate-limit response (429),
\* another error (an error status, or no answer at all)
Answers == {"ok", "rate_limited", "error"}

VARIABLES
    app_tg,        \* _app_tg is assigned
    loop_tg,       \* _loop_tg is assigned
    ready_evt,     \* _ready_evt.is_set()
    stop_evt,      \* _stop_evt.is_set()
    buffer,        \* _buffer, oldest first
    BUFFER_MAX,    \* _BUFFER_MAX, fixed at import
    pc,            \* position of every thread
    data,          \* _drain_buffer's local `data` per caller (0: none)
    drained,       \* _drain_buffer's local `drained` per caller
    exc,           \* the exception that ended a thread ("" : none)
    req_hdr,       \* secret header of request r
    req_body,      \* body of request r
    resp,          \* HTTP status answered to request r (0: none yet)
    loop_calls,    \* run_coroutine_threadsafe calls on _loop_tg, in order
    executed,      \* how many of loop_calls the loop has run
    evicted,       \* updates thrown away by line 220
    returned_before, \* history: requests that had returned when r started
    sd_buffer0,    \* history: _buffer when _graceful_shutdown started with
                   \* PTB ready (empty otherwise)
    BASE_URL,      \* BASE_URL is not empty, fixed at import
    hook,          \* the webhook Telegram holds for the bot
    main_pc,       \* position of the importing thread in _set_webhook_once
    reg,           \* what each registration path logged ("" : nothing yet)
    attempts,      \* setWebhook calls made by each registration path
    now,           \* wall clock
    arrived,       \* history: clock when update r was appended to _buffer
    submitted_at   \* history: clock when update r was handed to the loop

vars == <<app_tg, loop_tg, ready_evt, stop_evt, buffer, BUFFER_MAX, pc, data,
          drained, exc, req_hdr, req_body, resp, loop_calls, executed,
          evicted, returned_before, sd_buffer0, BASE_URL, hook, main_pc, reg,
          attempts, now, arrived, submitted_at>>

\* the state of the bot proper
botvars == <<app_tg, loop_tg, ready_evt, stop_evt, buffer, BUFFER_MAX, pc, data,
             drained, exc, req_hdr, req_body, resp, loop_calls, executed,
             evicted, returned_before, sd_buffer0>>
\* the state of the webhook registration, and the clock with its history
regvars == <<BASE_URL, hook, main_pc, reg, attempts>>
timevars == <<now, arrived, submitted_at>>

\* ------------------------------------------------------------- helpers
\* get_json called with silent=True: a body that does not parse gives None
\* instead of raising
get_json_ok_Silent(body) == TRUE

\* json.loads of the body succeeds (request.get_json(force=True, silent=False))
get_json_ok(body) == body # "malformed"

\* Update.de_json(data, bot) returns an Update (raises on a non-dict)
de_json_ok(body) == body = "update"

\* _submit_update_json(data): the calls on the loop after it
submit_update_json(r) ==
    IF ~(app_tg /\ loop_tg /\ ready_evt) THEN loop_calls
    ELSE IF ~de_json_ok(req_body[r]) THEN loop_calls
    ELSE Append(loop_calls, r)

\* what a path has logged after an answer: success (log.info at 152, 242),
\* or the exception (log.exception at 154, 244)
Logged(out) == IF out = "error" THEN "failed" ELSE out

\* the state when _t.start() has returned (line 188), before any thread has
\* run, for a configured BUFFER_MAX of at most cap and BASE_URL set or not
InitWith(cap, url) ==
    /\ app_tg = FALSE
    /\ loop_tg = FALSE
    /\ ready_evt = FALSE
    /\ stop_evt = FALSE
    /\ buffer = <<>>
    /\ BUFFER_MAX \in 1..cap
    /\ pc = [c \in Procs |-> IF c = PTB THEN "init" ELSE IF c = SD THEN "idle" ELSE "new"]
    /\ data = [c \in Procs |-> 0]
    /\ drained = [c \in Procs |-> 0]
    /\ exc = [c \in Procs |-> ""]
    /\ req_hdr = [r \in Requests |-> ""]
    /\ req_body = [r \in Requests |-> ""]
    /\ resp = [r \in Requests |-> 0]
    /\ loop_calls = <<>>
    /\ executed = 0
    /\ evicted = {}
    /\ returned_before = [r \in Requests |-> {}]
    /\ sd_buffer0 = <<>>
    /\ BASE_URL = url
    /\ hook \in IF url THEN Hooks ELSE {"none"}
    /\ main_pc = "start"
    /\ reg = [p \in Paths |-> ""]
    /\ attempts = [p \in Paths |-> 0]
    /\ now = 0
    /\ arrived = [r \in Requests |-> 0 - 1]
    /\ submitted_at = [r \in Requests |-> 0 - 1]

\* ------------------------------------------------- _drain_buffer (109-118)
\* where a caller goes when _drain_buffer returns: the PTB thread to its
\* serving loop (163); webhook() to its return (215); _graceful_shutdown to
\* its bounded waits (259-265), which change nothing and then return
AfterDrain(c) == IF c = PTB THEN "serve" ELSE "done"
\* where a caller goes when _drain_buffer raises: the PTB thread to its
\* except clause (176); webhook() and _graceful_shutdown end with the exception
AfterRaise(c) == IF c = PTB THEN "crashed" ELSE "done"

\* line 112: the while test
DrainTest(c) ==
    /\ pc[c] = "drain_test"
    /\ IF ready_evt /\ buffer # <<>>
       THEN /\ pc' = [pc EXCEPT ![c] = "drain_pop"]
            /\ resp' = resp
       ELSE /\ pc' = [pc EXCEPT ![c] = AfterDrain(c)]
            /\ resp' = IF c \in Requests THEN [resp EXCEPT ![c] = 200] ELSE resp
    /\ UNCHANGED <<app_tg, loop_tg, ready_evt, stop_evt, buffer, BUFFER_MAX,
                   data, drained, exc, req_hdr, req_body, loop_calls,
                   executed, evicted, returned_before, sd_buffer0>>
    /\ UNCHANGED <<regvars, timevars>>

\* line 113: data = _buffer.popleft(); IndexError on an empty deque
DrainPop(c) ==
    /\ pc[c] = "drain_pop"
    /\ IF buffer # <<>>
       THEN /\ data' = [data EXCEPT ![c] = Head(buffer)]
            /\ buffer' = Tail(buffer)
            /\ pc' = [pc EXCEPT ![c] = "drain_submit"]
            /\ UNCHANGED <<exc, resp>>
       ELSE /\ exc' = [exc EXCEPT ![c] = "IndexError@113"]
            /\ pc' = [pc EXCEPT ![c] = AfterRaise(c)]
            /\ resp' = IF c \in Requests THEN [resp EXCEPT ![c] = 500] ELSE resp
            /\ UNCHANGED <<data, buffer>>
    /\ UNCHANGED <<app_tg, loop_tg, ready_evt, stop_evt, BUFFER_MAX, drained,
                   req_hdr, req_body, loop_calls, executed, evicted,
                   returned_before, sd_buffer0>>
    /\ UNCHANGED <<regvars, timevars>>

\* a drain that throws away an update that waited longer than TTL
DrainSubmit_DropsExpired(c) ==
    /\ pc[c] = "drain_submit"
    /\ loop_calls' = IF now - arrived[data[c]] > TTL THEN loop_calls
                     ELSE submit_update_json(data[c])
    /\ drained' = [drained EXCEPT ![c] = @ + 1]
    /\ data' = [data EXCEPT ![c] = 0]
    /\ pc' = [pc EXCEPT ![c] = "drain_test"]
    /\ UNCHANGED <<app_tg, loop_tg, ready_evt, stop_evt, buffer, BUFFER_MAX,
                   exc, req_hdr, req_body, resp, executed, evicted,
                   returned_before, sd_buffer0>>
    /\ submitted_at' = IF loop_calls' # loop_calls
                       THEN [submitted_at EXCEPT ![data[c]] = now]
                       ELSE submitted_at
    /\ UNCHANGED <<regvars, now, arrived>>

\* lines 114-115: _submit_update_json(data); drained += 1
DrainSubmit(c) ==
    /\ pc[c] = "drain_submit"
    /\ loop_calls' = submit_update_json(data[c])
    /\ drained' = [drained EXCEPT ![c] = @ + 1]
    /\ data' = [data EXCEPT ![c] = 0]
    /\ pc' = [pc EXCEPT ![c] = "drain_test"]
    /\ UNCHANGED <<app_tg, loop_tg, ready_evt, stop_evt, buffer, BUFFER_MAX,
                   exc, req_hdr, req_body, resp, executed, evicted,
                   returned_before, sd_buffer0>>
    /\ submitted_at' = IF loop_calls' # loop_calls
                       THEN [submitted_at EXCEPT ![data[c]] = now]
                       ELSE submitted_at
    /\ UNCHANGED <<regvars, now, arrived>>

\* ------------------------------------------------------ webhook (197-223)
\* a comparison that lets a request without the header through
auth_ok_AbsentPasses(hdr) == hdr = WEBHOOK_SECRET \/ hdr = ""

\* line 201: hdr != WEBHOOK_SECRET is false
auth_ok(hdr) == hdr = WEBHOOK_SECRET

\* lines 198-211: request r arrives (requests are numbered in arrival order);
\* the secret header is compared, the body is parsed and _ready_evt is read.
\* Everything before the read of _ready_evt is local to the handler. The
\* server takes requests once the import (ending with line 247) is over.
WebhookEntry(r) ==
    /\ main_pc = "done"
    /\ pc[r] = "new"
    /\ \A q \in Requests : q < r => pc[q] # "new"
    /\ \E hdr \in Headers :
        /\ req_hdr' = [req_hdr EXCEPT ![r] = hdr]
        /\ IF ~auth_ok(hdr)
           THEN /\ resp' = [resp EXCEPT ![r] = 403]
                /\ pc' = [pc EXCEPT ![r] = "done"]
                /\ req_body' = req_body
           ELSE \E body \in Bodies :
                /\ req_body' = [req_body EXCEPT ![r] = body]
                /\ IF ~get_json_ok(body)
                   THEN /\ resp' = [resp EXCEPT ![r] = 400]
                        /\ pc' = [pc EXCEPT ![r] = "done"]
                   ELSE /\ resp' = resp
                        /\ pc' = [pc EXCEPT ![r] =
                                    IF ready_evt THEN "submit" ELSE "check_len"]
    /\ returned_before' = [returned_before EXCEPT ![r] = {q \in Requests : pc[q] = "done"}]
    /\ UNCHANGED <<app_tg, loop_tg, ready_evt, stop_evt, buffer, BUFFER_MAX,
                   data, drained, exc, loop_calls, executed, evicted, sd_buffer0>>
    /\ UNCHANGED <<regvars, timevars>>

\* line 212: _submit_update_json(data); then _drain_buffer("webhook") starts
WebhookSubmit(r) ==
    /\ pc[r] = "submit"
    /\ loop_calls' = submit_update_json(r)
    /\ pc' = [pc EXCEPT ![r] = "drain_test"]
    /\ UNCHANGED <<app_tg, loop_tg, ready_evt, stop_evt, buffer, BUFFER_MAX,
                   data, drained, exc, req_hdr, req_body, resp, executed,
                   evicted, returned_before, sd_buffer0>>
    /\ submitted_at' = IF loop_calls' # loop_calls
                       THEN [submitted_at EXCEPT ![r] = now]
                       ELSE submitted_at
    /\ UNCHANGED <<regvars, now, arrived>>

\* the capacity test written with > instead of >=
WebhookCheckLen_OffByOne(r) ==
    /\ pc[r] = "check_len"
    /\ pc' = [pc EXCEPT ![r] = IF Len(buffer) > BUFFER_MAX THEN "evict" ELSE "append"]
    /\ UNCHANGED <<app_tg, loop_tg, ready_evt, stop_evt, buffer, BUFFER_MAX,
                   data, drained, exc, req_hdr, req_body, resp, loop_calls,
                   executed, evicted, returned_before, sd_buffer0>>
    /\ UNCHANGED <<regvars, timevars>>

\* line 218: if len(_buffer) >= _BUFFER_MAX
WebhookCheckLen(r) ==
    /\ pc[r] = "check_len"
    /\ pc' = [pc EXCEPT ![r] = IF Len(buffer) >= BUFFER_MAX THEN "evict" ELSE "append"]
    /\ UNCHANGED <<app_tg, loop_tg, ready_evt, stop_evt, buffer, BUFFER_MAX,
                   data, drained, exc, req_hdr, req_body, resp, loop_calls,
                   executed, evicted, returned_before, sd_buffer0>>
    /\ UNCHANGED <<regvars, timevars>>

\* line 220: _buffer.popleft(); IndexError on an empty deque
WebhookEvict(r) ==
    /\ pc[r] = "evict"
    /\ IF buffer # <<>>
       THEN /\ evicted' = evicted \cup {Head(buffer)}
            /\ buffer' = Tail(buffer)
            /\ pc' = [pc EXCEPT ![r] = "append"]
            /\ UNCHANGED <<exc, resp>>
       ELSE /\ exc' = [exc EXCEPT ![r] = "IndexError@220"]
            /\ resp' = [resp EXCEPT ![r] = 500]
            /\ pc' = [pc EXCEPT ![r] = "done"]
            /\ UNCHANGED <<evicted, buffer>>
    /\ UNCHANGED <<app_tg, loop_tg, ready_evt, stop_evt, BUFFER_MAX, data,
                   drained, req_hdr, req_body, loop_calls, executed,
                   returned_before, sd_buffer0>>
    /\ UNCHANGED <<regvars, timevars>>

\* lines 217-223: the losses webhook() has recorded: the eviction at 219-220
\* counts nothing and logs nothing (the warning at 222 reports the length of
\* the buffer after every append)
loss_counter == 0

\* lines 221-223: _buffer.append(data); return jsonify(ok=True)
WebhookAppend(r) ==
    /\ pc[r] = "append"
    /\ buffer' = Append(buffer, r)
    /\ resp' = [resp EXCEPT ![r] = 200]
    /\ pc' = [pc EXCEPT ![r] = "done"]
    /\ UNCHANGED <<app_tg, loop_tg, ready_evt, stop_evt, BUFFER_MAX, data,
                   drained, exc, req_hdr, req_body, loop_calls, executed,
                   evicted, returned_before, sd_buffer0>>
    /\ arrived' = [arrived EXCEPT ![r] = now]
    /\ UNCHANGED <<regvars, now, submitted_at>>

webhook(r) ==
    \/ WebhookEntry(r)
    \/ WebhookSubmit(r)
    \/ DrainTest(r)
    \/ DrainPop(r)
    \/ DrainSubmit(r)
    \/ WebhookCheckLen(r)
    \/ WebhookEvict(r)
    \/ WebhookAppend(r)

\* -------------------------------------------------- _ptb_thread (122-184)
\* lines 129-141: new event loop, Application built
PTBInit ==
    /\ pc[PTB] = "init"
    /\ loop_tg' = TRUE
    /\ app_tg' = TRUE
    /\ pc' = [pc EXCEPT ![PTB] = "bootstrap"]
    /\ UNCHANGED <<ready_evt, stop_evt, buffer, BUFFER_MAX, data, drained, exc,
                   req_hdr, req_body, resp, loop_calls, executed, evicted,
                   returned_before, sd_buffer0>>
    /\ UNCHANGED <<regvars, timevars>>

\* lines 143-148, 156: run_until_complete(_async_bootstrap()); initialize()
\* and start() either complete or raise (the except at 176 ends the thread);
\* without BASE_URL the coroutine is over
PTBBootstrap ==
    /\ pc[PTB] = "bootstrap"
    /\ \E ok \in BOOLEAN :
        IF ok
        THEN /\ pc' = [pc EXCEPT ![PTB] = IF BASE_URL THEN "reg_delete" ELSE "set_ready"]
             /\ exc' = exc
        ELSE /\ pc' = [pc EXCEPT ![PTB] = "crashed"]
             /\ exc' = [exc EXCEPT ![PTB] = "Exception@156"]
    /\ UNCHANGED <<app_tg, loop_tg, ready_evt, stop_evt, buffer, BUFFER_MAX,
                   data, drained, req_hdr, req_body, resp, loop_calls,
                   executed, evicted, returned_before, sd_buffer0>>
    /\ UNCHANGED <<regvars, timevars>>

\* line 150: await _app_tg.bot.delete_webhook(...); a failure raises into
\* the except at 153, which logs it and ends the coroutine
PTBRegDelete ==
    /\ pc[PTB] = "reg_delete"
    /\ \E out \in Answers :
        IF out = "ok"
        THEN /\ hook' = "none"
             /\ pc' = [pc EXCEPT ![PTB] = "reg_set"]
             /\ reg' = reg
        ELSE /\ hook' = hook
             /\ pc' = [pc EXCEPT ![PTB] = "set_ready"]
             /\ reg' = [reg EXCEPT !["ptb"] = Logged(out)]
    /\ UNCHANGED <<app_tg, loop_tg, ready_evt, stop_evt, buffer, BUFFER_MAX,
                   data, drained, exc, req_hdr, req_body, resp, loop_calls,
                   executed, evicted, returned_before, sd_buffer0>>
    /\ UNCHANGED <<BASE_URL, main_pc, attempts, timevars>>

\* a bootstrap without the try/except of 149-154: a failed set_webhook
\* raises out of run_until_complete and ends the thread
PTBRegSet_Fatal ==
    /\ pc[PTB] = "reg_set"
    /\ attempts' = [attempts EXCEPT !["ptb"] = @ + 1]
    /\ \E out \in Answers :
        /\ hook' = IF out = "ok" THEN "url" ELSE hook
        /\ reg' = [reg EXCEPT !["ptb"] = Logged(out)]
        /\ pc' = [pc EXCEPT ![PTB] = IF out = "ok" THEN "set_ready" ELSE "crashed"]
        /\ exc' = [exc EXCEPT ![PTB] = IF out = "ok" THEN "" ELSE "Exception@156"]
    /\ UNCHANGED <<app_tg, loop_tg, ready_evt, stop_evt, buffer, BUFFER_MAX,
                   data, drained, req_hdr, req_body, resp, loop_calls,
                   executed, evicted, returned_before, sd_buffer0>>
    /\ UNCHANGED <<BASE_URL, main_pc, timevars>>

\* lines 151-154: await _app_tg.bot.set_webhook(...), one call; success is
\* logged at 152, a failure at 154, and the coroutine ends either way
PTBRegSet ==
    /\ pc[PTB] = "reg_set"
    /\ attempts' = [attempts EXCEPT !["ptb"] = @ + 1]
    /\ \E out \in Answers :
        /\ hook' = IF out = "ok" THEN "url" ELSE hook
        /\ reg' = [reg EXCEPT !["ptb"] = Logged(out)]
    /\ pc' = [pc EXCEPT ![PTB] = "set_ready"]
    /\ UNCHANGED <<app_tg, loop_tg, ready_evt, stop_evt, buffer, BUFFER_MAX,
                   data, drained, exc, req_hdr, req_body, resp, loop_calls,
                   executed, evicted, returned_before, sd_buffer0>>
    /\ UNCHANGED <<BASE_URL, main_pc, timevars>>

\* line 158: _ready_evt.set(); then _drain_buffer("startup") starts
PTBSetReady ==
    /\ pc[PTB] = "set_ready"
    /\ ready_evt' = TRUE
    /\ pc' = [pc EXCEPT ![PTB] = "drain_test"]
    /\ UNCHANGED <<app_tg, loop_tg, stop_evt, buffer, BUFFER_MAX, data, drained,
                   exc, req_hdr, req_body, resp, loop_calls, executed, evicted,
                   returned_before, sd_buffer0>>
    /\ UNCHANGED <<regvars, timevars>>

\* lines 163-173: while the thread is in its serving loop, and while it runs
\* _async_shutdown, the event loop runs: a scheduled process_update
\* coroutine is executed, in the order of scheduling
LoopRun ==
    /\ pc[PTB] = "serve"
    /\ executed < Len(loop_calls)
    /\ executed' = executed + 1
    /\ UNCHANGED <<app_tg, loop_tg, ready_evt, stop_evt, buffer, BUFFER_MAX, pc,
                   data, drained, exc, req_hdr, req_body, resp, loop_calls,
                   evicted, returned_before, sd_buffer0>>
    /\ UNCHANGED <<regvars, timevars>>

\* a thread that clears _ready_evt on its way out
PTBStop_ClearsReady ==
    /\ pc[PTB] = "serve"
    /\ stop_evt
    /\ ready_evt' = FALSE
    /\ pc' = [pc EXCEPT ![PTB] = "exited"]
    /\ UNCHANGED <<app_tg, loop_tg, stop_evt, buffer, BUFFER_MAX,
                   data, drained, exc, req_hdr, req_body, resp, loop_calls,
                   executed, evicted, returned_before, sd_buffer0>>
    /\ UNCHANGED <<regvars, timevars>>

\* lines 163-184: the while test sees _stop_evt set, _async_shutdown has
\* run, the thread ends and the loop is never run again
PTBStop ==
    /\ pc[PTB] = "serve"
    /\ stop_evt
    /\ pc' = [pc EXCEPT ![PTB] = "exited"]
    /\ UNCHANGED <<app_tg, loop_tg, ready_evt, stop_evt, buffer, BUFFER_MAX,
                   data, drained, exc, req_hdr, req_body, resp, loop_calls,
                   executed, evicted, returned_before, sd_buffer0>>
    /\ UNCHANGED <<regvars, timevars>>

ptb_thread ==
    \/ PTBInit
    \/ PTBBootstrap
    \/ PTBSetReady
    \/ DrainTest(PTB)
    \/ DrainPop(PTB)
    \/ DrainSubmit(PTB)
    \/ PTBStop

\* lines 148-154: the registration inside _async_bootstrap
ptb_register ==
    \/ PTBRegDelete
    \/ PTBRegSet

\* ---------------------------------------- _set_webhook_once (227-247)
\* lines 229-233: called at import (247); returns at once without BASE_URL.
\* The HTTP server and the signal handlers (268-271) exist only when the
\* import is over.
SetWebhookOnce ==
    /\ main_pc = "start"
    /\ main_pc' = IF BASE_URL THEN "delete" ELSE "done"
    /\ UNCHANGED <<botvars, BASE_URL, hook, reg, attempts, timevars>>

\* line 236: cl.post(.../deleteWebhook); the status of the answer is not
\* looked at, and no answer at all raises into the except at 243
MainDelete ==
    /\ main_pc = "delete"
    /\ \E out \in Answers \cup {"no_answer"} :
        /\ hook' = IF out = "ok" THEN "none" ELSE hook
        /\ main_pc' = IF out = "no_answer" THEN "done" ELSE "set"
        /\ reg' = IF out = "no_answer" THEN [reg EXCEPT !["main"] = "failed"] ELSE reg
    /\ UNCHANGED <<botvars, BASE_URL, attempts, timevars>>

\* a registrar that waits and calls setWebhook again after a rate-limit
\* response
MainSet_Retries ==
    /\ main_pc = "set"
    /\ attempts["main"] < 3
    /\ attempts' = [attempts EXCEPT !["main"] = @ + 1]
    /\ \E out \in Answers :
        /\ hook' = IF out = "ok" THEN "url" ELSE hook
        /\ reg' = [reg EXCEPT !["main"] = Logged(out)]
        /\ main_pc' = IF out = "rate_limited" THEN "set" ELSE "done"
    /\ UNCHANGED <<botvars, BASE_URL, timevars>>

\* lines 237-244: cl.post(.../setWebhook) and raise_for_status(), one call;
\* success is logged at 242, a failure at 244, and the function returns
MainSet ==
    /\ main_pc = "set"
    /\ attempts' = [attempts EXCEPT !["main"] = @ + 1]
    /\ \E out \in Answers :
        /\ hook' = IF out = "ok" THEN "url" ELSE hook
        /\ reg' = [reg EXCEPT !["main"] = Logged(out)]
    /\ main_pc' = "done"
    /\ UNCHANGED <<botvars, BASE_URL, timevars>>

set_webhook_once ==
    \/ SetWebhookOnce
    \/ MainDelete
    \/ MainSet

\* ------------------------------------------------------------ the clock
\* time passes
Tick ==
    /\ now < MaxTime
    /\ now' = now + 1
    /\ UNCHANGED <<botvars, regvars, arrived, submitted_at>>

\* ------------------------------------------- _graceful_shutdown (251-265)
\* lines 253-255: _stop_evt.set(); then _drain_buffer("shutdown") starts; the
\* handlers that call it are registered at 268-271, after the import's
\* _set_webhook_once
SDSetStop ==
    /\ main_pc = "done"
    /\ pc[SD] = "idle"
    /\ stop_evt' = TRUE
    /\ sd_buffer0' = IF ready_evt THEN buffer ELSE <<>>
    /\ pc' = [pc EXCEPT ![SD] = "drain_test"]
    /\ UNCHANGED <<app_tg, loop_tg, ready_evt, buffer, BUFFER_MAX, data, drained,
                   exc, req_hdr, req_body, resp, loop_calls, executed, evicted,
                   returned_before>>
    /\ UNCHANGED <<regvars, timevars>>

graceful_shutdown ==
    \/ SDSetStop
    \/ DrainTest(SD)
    \/ DrainPop(SD)
    \/ DrainSubmit(SD)

\* ------------------------------------------------------- specification
\* the program started without BASE_URL: no registration is made
Init == InitWith(MaxCap, FALSE)

Next ==
    \/ \E r \in 1..MaxReq : webhook(r)
    \/ ptb_thread
    \/ LoopRun
    \/ graceful_shutdown
    \/ SetWebhookOnce

Spec == Init /\ [][Next]_vars

\* The steps of a handler that has started, and of a shutdown that has
\* started: threads that the interpreter keeps scheduling.
HandlerStep(r) ==
    \/ WebhookSubmit(r)
    \/ DrainTest(r)
    \/ DrainPop(r)
    \/ DrainSubmit(r)
    \/ WebhookCheckLen(r)
    \/ WebhookEvict(r)
    \/ WebhookAppend(r)

ShutdownStep ==
    \/ DrainTest(SD)
    \/ DrainPop(SD)
    \/ DrainSubmit(SD)

\* Every running thread keeps being scheduled and the event loop keeps
\* running its callbacks; nothing makes a request arrive or a signal come.
FairSpec ==
    /\ Spec
    /\ WF_vars(ptb_thread)
    /\ WF_vars(LoopRun)
    /\ WF_vars(ShutdownStep)
    /\ WF_vars(SetWebhookOnce)
    /\ \A r \in 1..MaxReq : WF_vars(HandlerStep(r))

\* Threads run one at a time (no overlapping handlers): a thread steps only
\* while no other thread is inside webhook(), inside the startup drain or
\* inside _graceful_shutdown.
Busy(c) ==
    IF c = PTB THEN pc[c] \in {"drain_test", "drain_pop", "drain_submit"}
    ELSE IF c = SD THEN pc[c] \notin {"idle", "done"}
    ELSE pc[c] \notin {"new", "done"}

Solo(c) == \A d \in Procs \ {c} : ~Busy(d)

SeqInit == InitWith(SeqMaxCap, FALSE)

SeqNext ==
    \/ \E r \in 1..SeqMaxReq : Solo(r) /\ webhook(r)
    \/ Solo(PTB) /\ ptb_thread
    \/ LoopRun
    \/ Solo(SD) /\ graceful_shutdown
    \/ SetWebhookOnce

SeqSpec == SeqInit /\ [][SeqNext]_vars

\* The program started with BASE_URL: the two registration paths run and
\* overlap each other; handlers, the startup drain and shutdown run one at a
\* time.
RegInit == InitWith(MaxCap, TRUE)

RegNext ==
    \/ \E r \in 1..RegMaxReq : Solo(r) /\ webhook(r)
    \/ Solo(PTB) /\ ptb_thread
    \/ ptb_register
    \/ LoopRun
    \/ Solo(SD) /\ graceful_shutdown
    \/ set_webhook_once

RegSpec == RegInit /\ [][RegNext]_vars

\* Threads run one at a time while the clock runs.
TtlNext ==
    \/ \E r \in 1..TtlMaxReq : Solo(r) /\ webhook(r)
    \/ Solo(PTB) /\ ptb_thread
    \/ LoopRun
    \/ Solo(SD) /\ graceful_shutdown
    \/ SetWebhookOnce
    \/ Tick

TtlSpec == SeqInit /\ [][TtlNext]_vars

\* ------------------------------------------------------------- properties
\* how often update r occurs in sequence q
Occ(q, r) == Cardinality({i \in 1..Len(q) : q[i] = r})

\* the place of update r in sequence q (0: not in it)
Idx(q, r) == IF Occ(q, r) = 0 THEN 0 ELSE CHOOSE i \in 1..Len(q) : q[i] = r

\* request r was authenticated and its body is a Telegram update
Accepted(r) ==
    /\ pc[r] # "new"
    /\ req_hdr[r] = WEBHOOK_SECRET
    /\ req_body[r] = "update"

\* the handler of r still holds its update: it has neither appended nor
\* submitted it yet
HeldByHandler(r) == pc[r] \in {"submit", "check_len", "evict", "append"}

\* the update r has been executed by process_update on the loop
Executed(r) == \E i \in 1..executed : loop_calls[i] = r

\* C1: every accepted update is in exactly one place: held by its handler,
\* in the buffer, held by a drain that popped it, submitted to PTB (once), or
\* thrown away by the capacity eviction of line 220.
C1_ExactlyOnePlace ==
    \A r \in Requests :
        Accepted(r) =>
            Occ(buffer, r) + Occ(loop_calls, r)
              + Cardinality({c \in Procs : data[c] = r})
              + (IF HeldByHandler(r) THEN 1 ELSE 0)
              + (IF r \in evicted THEN 1 ELSE 0) = 1

\* C2: once PTB is ready, an update that sits in the buffer is eventually
\* submitted to PTB (or evicted by capacity overflow). Stated for the case
\* the claim singles out: the obligation also counts as met when a further
\* request arrives or shutdown is requested, so only a run with neither can
\* break it.
C2_BufferedEventuallySubmitted ==
    \A r \in 1..(MaxReq - 1) :
        (ready_evt /\ Occ(buffer, r) > 0 /\ req_body[r] = "update")
            ~> \/ Occ(loop_calls, r) > 0
               \/ r \in evicted
               \/ stop_evt
               \/ \E q \in Requests : q > r /\ pc[q] # "new"

\* C3: a request with the right secret and a body that parses is answered
\* 200; 403 is answered only for a wrong secret, 400 only for a body that
\* does not parse, and no other status is answered.
C3_Always200 ==
    \A r \in Requests :
        /\ (pc[r] = "done" /\ req_hdr[r] = WEBHOOK_SECRET /\ req_body[r] # "malformed")
              => resp[r] = 200
        /\ resp[r] = 403 => req_hdr[r] # WEBHOOK_SECRET
        /\ resp[r] = 400 => req_body[r] = "malformed"
        /\ resp[r] \in {0, 200, 400, 403}

\* C4: when the handler of u1 returned before the handler of u2 started and
\* both updates have been submitted to PTB, u1 was submitted before u2.
C4_ArrivalOrder ==
    \A u1, u2 \in Requests :
        (/\ u1 \in returned_before[u2]
         /\ Accepted(u1) /\ Accepted(u2)
         /\ Occ(loop_calls, u1) > 0 /\ Occ(loop_calls, u2) > 0)
            => Idx(loop_calls, u1) < Idx(loop_calls, u2)

\* C5: the buffer never holds more than BUFFER_MAX updates.
C5_BufferBounded == Len(buffer) <= BUFFER_MAX

\* C7: no call of _drain_buffer raises (IndexError of popleft at line 113) in
\* any caller, so neither the PTB thread nor a handler ends by it.
C7_DrainNeverRaises == \A c \in Procs : exc[c] # "IndexError@113"

\* C8: when the PTB thread has exited after a graceful shutdown that began
\* with PTB ready, every update that was in the buffer at that moment (and
\* was not evicted) has been executed by process_update.
C8_ShutdownFlushes ==
    pc[PTB] = "exited" =>
        \A r \in Requests :
            (Occ(sd_buffer0, r) > 0 /\ req_body[r] = "update" /\ r \notin evicted)
                => Executed(r)

\* C9: a request that starts after _stop_evt is set does not take the
\* buffering path (lines 217-223).
C9_NoBufferingAfterStop ==
    [][\A r \in Requests :
          (stop_evt /\ pc[r] = "new" /\ pc'[r] # "new") => pc'[r] # "check_len"]_vars

\* C6 (threads run one at a time). Let A be the requests answered 200, in
\* arrival order, and N = BUFFER_MAX. While PTB is not ready the buffer holds
\* the last min(|A|, N) of A and the older ones are evicted. After the
\* startup drain, with k the number that had been buffered, the drain has
\* returned min(k, N), the buffer is empty, and PTB has been handed, each once
\* and in arrival order, the updates among the last min(k, N) buffered ones,
\* followed by those dispatched directly. Every other drain found the buffer
\* empty, returned 0 and submitted nothing.
Quiet == \A c \in Procs : ~Busy(c)

Min(a, b) == IF a < b THEN a ELSE b

Answered200 == SelectSeq([i \in 1..SeqMaxReq |-> i], LAMBDA r : resp[r] = 200)

UpdatesOf(q) == SelectSeq(q, LAMBDA r : req_body[r] = "update")

C6_SequentialDrain ==
    Quiet =>
        LET A == Answered200
            N == BUFFER_MAX
            n == drained[PTB]
            k == IF ready_evt THEN n + Cardinality(evicted) ELSE Len(A)
            m == Min(k, N)
        IN  /\ k <= Len(A)
            /\ evicted = {A[i] : i \in 1..(k - m)}
            /\ \A c \in Procs \ {PTB} : drained[c] = 0
            /\ IF ready_evt
               THEN /\ n = m
                    /\ buffer = <<>>
                    /\ loop_calls = UpdatesOf(SubSeq(A, k - m + 1, Len(A)))
               ELSE /\ n = 0
                    /\ buffer = SubSeq(A, k - m + 1, k)
                    /\ loop_calls = <<>>

\* C6 witness: capacity 3, four updates buffered, the drain submitted
\* <<2, 3, 4>>, and the shutdown drain then ran on the empty buffer.
C6_Witness ==
    /\ Quiet
    /\ BUFFER_MAX = 3
    /\ evicted = {1}
    /\ drained[PTB] = 3
    /\ loop_calls = <<2, 3, 4>>
    /\ buffer = <<>>
    /\ pc[SD] = "done"
    /\ drained[SD] = 0

C11_BadJson ==
    [][\A r \in Requests :
          (/\ pc[r] = "new" /\ pc'[r] # "new"
           /\ req_hdr'[r] = WEBHOOK_SECRET
           /\ req_body'[r] = "malformed")
              => /\ resp'[r] = 400
                 /\ pc'[r] = "done"
                 /\ UNCHANGED <<buffer, loop_calls, executed, evicted, data,
                                drained, ready_evt, stop_evt>>]_vars

\* C11 witness: two authenticated requests with a body that is not JSON have
\* each been answered 400, and PTB is ready.
C11_Witness ==
    \E r, q \in Requests :
        /\ r # q
        /\ resp[r] = 400 /\ req_hdr[r] = WEBHOOK_SECRET /\ req_body[r] = "malformed"
        /\ resp[q] = 400 /\ req_hdr[q] = WEBHOOK_SECRET /\ req_body[q] = "malformed"
        /\ ready_evt

\* C12: an authenticated request whose body is JSON but not an object is
\* answered with a client error, is never in the buffer and is never given to
\* _submit_update_json, by its handler or by a drain.
C12_NonObjectRejected ==
    \A r \in Requests :
        (req_hdr[r] = WEBHOOK_SECRET /\ req_body[r] = "nonobject")
            => /\ resp[r] \in {0, 400}
               /\ Occ(buffer, r) = 0
               /\ \A c \in Procs : data[c] # r
               /\ pc[r] \notin {"drain_test", "drain_pop", "drain_submit"}

\* C13: _ready_evt is never cleared, and it is set only by the PTB thread's
\* step at line 158, which the thread reaches only with _app_tg and _loop_tg
\* assigned and with no exception out of the bootstrap.
C13_ReadyOneShot ==
    [][/\ ready_evt => ready_evt'
       /\ (~ready_evt /\ ready_evt')
             => /\ pc[PTB] = "set_ready"
                /\ pc'[PTB] = "drain_test"
                /\ app_tg /\ loop_tg
                /\ exc[PTB] = ""]_vars

\* C13 witness: the gate is still open after shutdown was requested, the
\* shutdown drain returned and the PTB thread ended.
C13_Witness ==
    /\ ready_evt
    /\ stop_evt
    /\ pc[SD] = "done"
    /\ pc[PTB] \in {"exited", "crashed"}
    /\ \E r \in Requests : resp[r] = 200

\* C18: no update is handed to the loop (run_coroutine_threadsafe, line 102)
\* once the PTB thread has stopped running it, so every update acknowledged
\* on the ready path gets executed.
C18_NoSubmitToDeadLoop ==
    [][loop_calls' # loop_calls => pc[PTB] \notin {"exited", "crashed"}]_vars

\* a registration path has returned
Finished(p) ==
    IF p = "main" THEN main_pc = "done"
    ELSE pc[PTB] \notin {"init", "bootstrap", "reg_delete", "reg_set"}
         /\ exc[PTB] # "Exception@156"

C16_EvictionCounted == loss_counter = Cardinality(evicted)

\* C17 (as claimed): no update is handed to PTB later than TTL after it was
\* put in the buffer.
C17_NoStaleDelivery ==
    \A r \in Requests :
        (arrived[r] >= 0 /\ submitted_at[r] >= 0)
            => submitted_at[r] - arrived[r] <= TTL

\* C17 (amended): the buffer has no time-to-live. A drain hands every
\* Telegram update it popped to PTB, whatever its age, and an update leaves
\* the buffer only popped by a drain or by the capacity eviction.
C17_DrainIgnoresAge ==
    [][/\ \A c \in Procs :
             (/\ pc[c] = "drain_submit" /\ pc'[c] # "drain_submit"
              /\ req_body[data[c]] = "update")
                 => loop_calls' = Append(loop_calls, data[c])
       /\ \A r \in Requests :
             (Occ(buffer, r) > 0 /\ Occ(buffer', r) = 0)
                 => (r \in evicted' \/ \E c \in Procs : data'[c] = r)]_vars

\* C17 witness: an update was handed to PTB more than TTL after it was
\* buffered.
C17_Witness ==
    \E r \in Requests :
        /\ arrived[r] >= 0
        /\ submitted_at[r] - arrived[r] > TTL
        /\ Occ(loop_calls, r) = 1

\* C19: when both registration paths have returned and at least one of them
\* logged success for its setWebhook, Telegram holds the webhook at
\* WEBHOOK_URL.
C19_RegisteredIfAnySuccess ==
    ((\A p \in Paths : Finished(p) /\ reg[p] # "")
        /\ (\E p \in Paths : reg[p] = "ok"))
            => hook = "url"

====
